---- MODULE Spec2Model ----
(***************************************************************************)
(* The capture function of CaptureAPI (supabase/functions/capture/index.ts) *)
(* as a state machine: one request, handled from the Deno.serve callback's  *)
(* entry to the response it returns.  Each action is the code between two   *)
(* awaits of the handler.                                                    *)
(*                                                                           *)
(* A JavaScript string is modelled as the non-empty sequence of its pieces  *)
(* between '/' characters (what s.split('/') returns): "" is <<"">>, "/" is *)
(* <<"","">>, "/a/b" is <<"","a","b">>, "https://h/x" is                    *)
(* <<"https:","","h","x">>.  A JavaScript value is a record with its type   *)
(* tag t and, for a string, its pieces.                                      *)
(***************************************************************************)
EXTENDS Naturals, Sequences, FiniteSets, TLC

VARIABLES
    req,             \* the inbound Request: method, pathname, headers, _target
    env,             \* Deno.env: SUPABASE_URL, SUPABASE_ANON_KEY, SUPABASE_SERVICE_ROLE_KEY
    pc,              \* the handler's position
    targetBase,      \* let targetBase
    proxyPath,       \* let proxyPath
    targetUrl,       \* const targetUrl
    requestBody,     \* let requestBody
    upstream,        \* what fetch() resolved to or rejected with
    response,        \* let response
    responseStatus,  \* let responseStatus
    responseHeaders, \* let responseHeaders (its content-type entry)
    responseBody,    \* let responseBody
    uncaught,        \* the error the outer catch received, if any
    returned,        \* the Response the handler returned to the runtime
    trace,           \* the awaited calls made so far, in order, with their outcomes
    writes           \* the payloads handed to the two log sinks, in order

vars == << req, env, pc, targetBase, proxyPath, targetUrl, requestBody, upstream,
           response, responseStatus, responseHeaders, responseBody, uncaught,
           returned, trace, writes >>

----------------------------------------------------------------------------
(* Bounds of the model *)

\* longest inbound path, in segments, that SpecResolve enumerates
MaxSegs == 4

----------------------------------------------------------------------------
(* JavaScript values and strings *)

Null == [t |-> "null", parts |-> <<>>]
Undefined == [t |-> "undefined", parts |-> <<>>]
\* a non-string object, such as a member inherited from Object.prototype
Fn == [t |-> "function", parts |-> <<>>]
Str(parts) == [t |-> "string", parts |-> parts]

EmptyString == <<"">>

\* ToBoolean(v)
Truthy(v) ==
    \/ v.t = "function"
    \/ v.t = "string" /\ v.parts # EmptyString

\* a || b
Or(a, b) == IF Truthy(a) THEN a ELSE b

\* a ?? b
Coalesce(a, b) == IF a.t \in {"null", "undefined"} THEN b ELSE a

\* a + b on strings
Concat(a, b) ==
    SubSeq(a, 1, Len(a) - 1) \o << a[Len(a)] \o b[1] >> \o Tail(b)

\* arr.join('/') of an array of slash-free strings
JoinSlash(arr) == IF arr = <<>> THEN EmptyString ELSE arr

\* the text of a string, for comparison with a literal
RECURSIVE Text(_)
Text(parts) ==
    IF Len(parts) = 1 THEN parts[1] ELSE parts[1] \o "/" \o Text(Tail(parts))

\* arr.filter(Boolean)
FilterBoolean(arr) == SelectSeq(arr, LAMBDA s : s # "")

\* arr.indexOf(x), 1-based; 0 stands for -1
IndexOf(arr, x) ==
    IF \E i \in 1..Len(arr) : arr[i] = x
    THEN CHOOSE i \in 1..Len(arr) : arr[i] = x /\ \A j \in 1..(i - 1) : arr[j] # x
    ELSE 0

\* arr.slice(k) for the 0-based k that follows the 1-based index i
SliceAfter(arr, i) == SubSeq(arr, i + 1, Len(arr))

\* s.replace(/\/$/, '')
StripTrailingSlash(s) ==
    IF Len(s) >= 2 /\ s[Len(s)] = "" THEN SubSeq(s, 1, Len(s) - 1) ELSE s

\* s.replace(/^\//, '')
StripLeadingSlash(s) ==
    IF Len(s) >= 2 /\ s[1] = "" THEN Tail(s) ELSE s

----------------------------------------------------------------------------
(* corsHeaders and the alias map *)

corsHeaders ==
    [ AccessControlAllowOrigin |-> "*",
      AccessControlAllowHeaders |->
        "authorization, x-client-info, apikey, content-type, x-proxy-target, x-anthropic-version, anthropic-version",
      AccessControlAllowMethods |-> "POST, GET, OPTIONS, PUT, DELETE, PATCH" ]

NoHeaders == [ none |-> TRUE ]

ENDPOINT_MAP ==
    [ anthropic |-> <<"https:", "", "api.anthropic.com">>,
      openai    |-> <<"https:", "", "api.openai.com">>,
      deepseek  |-> <<"https:", "", "api.deepseek.com">>,
      gemini    |-> <<"https:", "", "generativelanguage.googleapis.com">>,
      groq      |-> <<"https:", "", "api.groq.com", "openai">>,
      xrapi     |-> <<"https:", "", "api.nextxr.site">>,
      echo      |-> <<"https:", "", "echo.free.beeceptor.com">> ]

\* ENDPOINT_MAP is an object literal: a property read that misses its own keys
\* goes on to Object.prototype
ObjectPrototypeKeys ==
    { "constructor", "toString", "toLocaleString", "valueOf", "hasOwnProperty",
      "isPrototypeOf", "propertyIsEnumerable", "__proto__", "__defineGetter__",
      "__defineSetter__", "__lookupGetter__", "__lookupSetter__" }

\* ENDPOINT_MAP[key]
EndpointLookup(key) ==
    IF key \in DOMAIN ENDPOINT_MAP THEN Str(ENDPOINT_MAP[key])
    ELSE IF key \in ObjectPrototypeKeys THEN Fn
    ELSE Undefined

DefaultUpstream == <<"https:", "", "api.anthropic.com">>

----------------------------------------------------------------------------
(* Target resolution, lines 34-91 *)

\* url.search: the query string as received
Search(r) ==
    IF r.target.t = "null" THEN EmptyString ELSE Concat(<<"?_target=">>, r.target.parts)

\* url.pathname.split('/').filter(Boolean)
pathSegments(r) == FilterBoolean(r.pathname)

\* OverrideTarget with the two lookups swapped: the parameter before the header
OverrideTarget_QueryFirst(r) == Or(r.target, r.xProxyTarget)

\* req.headers.get('x-proxy-target') || url.searchParams.get('_target')
OverrideTarget(r) == Or(r.xProxyTarget, r.target)

\* the for loop: the 1-based index of the first segment whose ENDPOINT_MAP entry
\* is truthy, 0 when the loop ends with aliasIndex = -1
aliasIndex(segs) ==
    IF \E i \in 1..Len(segs) : Truthy(EndpointLookup(segs[i]))
    THEN CHOOSE i \in 1..Len(segs) :
            /\ Truthy(EndpointLookup(segs[i]))
            /\ \A j \in 1..(i - 1) : ~Truthy(EndpointLookup(segs[j]))
    ELSE 0

\* '/' + pathSegments.slice(i + 1).join('/'), i the 0-based index of segs[i]
PathAfter(segs, i) == Concat(<<"", "">>, JoinSlash(SliceAfter(segs, i)))

\* the explicit-target branch
ExplicitTarget(r, base) ==
    LET segs == pathSegments(r)
        funcNameIndex == IndexOf(segs, "capture")
    IN  [ targetBase |-> base,
          proxyPath  |-> IF funcNameIndex # 0 THEN PathAfter(segs, funcNameIndex)
                         ELSE r.pathname ]

\* the alias branch
AliasTarget(r, i) ==
    LET segs == pathSegments(r)
    IN  [ targetBase |-> EndpointLookup(segs[i]),
          proxyPath  |-> PathAfter(segs, i) ]

\* the fallback branch
DefaultTarget(r) ==
    LET segs == pathSegments(r)
        funcNameIndex == IndexOf(segs, "capture")
    IN  [ targetBase |-> Str(DefaultUpstream),
          proxyPath  |->
            IF funcNameIndex # 0 THEN PathAfter(segs, funcNameIndex)
            ELSE IF Len(segs) >= 3 /\ segs[1] = "functions" /\ segs[2] = "v1"
                 THEN PathAfter(segs, 3)
                 ELSE r.pathname ]

\* lines 35-85: the values of targetBase and proxyPath
Resolve(r) ==
    LET base == OverrideTarget(r)
        i == aliasIndex(pathSegments(r))
    IN  IF ~Truthy(base)
        THEN IF i # 0 THEN AliasTarget(r, i) ELSE DefaultTarget(r)
        ELSE ExplicitTarget(r, base)

\* the pieces of a string after its leading empty ones
RECURSIVE DropLeadingEmpty(_)
DropLeadingEmpty(s) ==
    IF s = <<>> THEN <<>>
    ELSE IF s[1] = "" THEN DropLeadingEmpty(Tail(s)) ELSE s

\* whether new URL(s) parses s alone: scheme, "//", host, path
IsAbsoluteUrl(s) ==
    Len(s) >= 3 /\ s[1] \in {"http:", "https:"} /\ s[2] = "" /\ s[3] # ""

\* new URL(rel, base).toString(), for rel without scheme, query or dot segments
UrlJoin(rel, base) ==
    IF ~IsAbsoluteUrl(base) THEN [ ok |-> FALSE, href |-> EmptyString ]
    ELSE
      LET origin == SubSeq(base, 1, 3)
          basePath == IF Len(base) = 3 THEN <<"">> ELSE SubSeq(base, 4, Len(base))
          dir == SubSeq(basePath, 1, Len(basePath) - 1)
          authority == DropLeadingEmpty(rel)
      IN  IF rel = EmptyString
            THEN [ ok |-> TRUE, href |-> origin \o basePath ]
          ELSE IF Len(rel) >= 3 /\ rel[1] = "" /\ rel[2] = ""
            \* "//...": a network-path reference, the host is taken from rel
            THEN IF authority = <<>>
                 THEN [ ok |-> FALSE, href |-> EmptyString ]
                 ELSE [ ok |-> TRUE,
                        href |-> << base[1], "", authority[1] >>
                                 \o (IF Len(authority) = 1 THEN <<"">>
                                     ELSE Tail(authority)) ]
          ELSE IF rel[1] = "" /\ Len(rel) >= 2
            \* "/...": an absolute path, the base's path is dropped
            THEN [ ok |-> TRUE, href |-> origin \o Tail(rel) ]
          ELSE [ ok |-> TRUE, href |-> origin \o dir \o rel ]

\* lines 88-91: targetUrl, or the error the construction throws
ConstructUrl(base, path, search) ==
    IF base.t # "string"
    THEN [ ok |-> FALSE, href |-> EmptyString,
           error |-> <<"targetBase.replace is not a function">> ]
    ELSE
      LET normalizedTargetBase == StripTrailingSlash(base.parts)
          normalizedProxyPath == StripLeadingSlash(path)
          joined == UrlJoin(normalizedProxyPath, Concat(normalizedTargetBase, <<"", "">>))
      IN  IF joined.ok
          THEN [ ok |-> TRUE, href |-> Concat(joined.href, search), error |-> EmptyString ]
          ELSE [ ok |-> FALSE, href |-> EmptyString, error |-> <<"Invalid URL">> ]

----------------------------------------------------------------------------
(* Responses *)

NoResponse == [ status |-> 0, body |-> Undefined, headers |-> NoHeaders ]

\* PreflightResponse without the headers option
PreflightResponse_NoHeaders ==
    [ status |-> 200, body |-> Str(<<"ok">>),
      headers |-> [ ContentType |-> "text/plain;charset=UTF-8" ] ]

\* new Response('ok', { headers: corsHeaders })
PreflightResponse ==
    [ status |-> 200, body |-> Str(<<"ok">>), headers |-> corsHeaders ]

\* JSON.stringify({ error: message })
ErrorJson(message) == Concat(Concat(<<"{\"error\":\"">>, message), <<"\"}">>)

\* the outer catch's Response
ErrorResponse(message) ==
    [ status  |-> 500,
      body    |-> Str(ErrorJson(message)),
      headers |-> [ AccessControlAllowOrigin  |-> corsHeaders.AccessControlAllowOrigin,
                    AccessControlAllowHeaders |-> corsHeaders.AccessControlAllowHeaders,
                    AccessControlAllowMethods |-> corsHeaders.AccessControlAllowMethods,
                    ContentType |-> "application/json" ] ]

\* new Response(responseBody, { status: 502 })
BadGatewayResponse(body) ==
    [ status |-> 502, body |-> Str(body),
      headers |-> [ ContentType |-> "text/plain;charset=UTF-8" ] ]

Event(op, outcome) == [ op |-> op, outcome |-> outcome ]

----------------------------------------------------------------------------
(* Header values that are searched and never split are kept in one piece *)

Hdr(text) == Str(<<text>>)

\* which of the substrings the handler looks for a content type contains
Substrings(contentType) ==
    CASE contentType = Hdr("text/event-stream") -> { "text/event-stream", "text/" }
      [] contentType = Hdr("text/plain") -> { "text/" }
      [] contentType = Hdr("application/json") -> { "application/json" }
      [] contentType = Hdr("application/json; charset=utf-8") -> { "application/json" }
      [] OTHER -> {}

\* contentType.includes(needle)
Includes(contentType, needle) == needle \in Substrings(contentType)

\* req.headers.get(name): null for a header the request does not carry
HeadersGet(value) == IF value.t = "undefined" THEN Null ELSE value

\* lines 96-98: whether the request body is read for the log
LogsRequestBody(r) ==
    LET contentType == Or(r.contentType, Str(EmptyString))
    IN  Includes(contentType, "application/json") \/ Includes(contentType, "text/")

----------------------------------------------------------------------------
(* The inputs *)

\* the segments SpecResolve builds inbound paths from; "" is an empty segment
\* ("//"), "constructor" a member of Object.prototype
Segments == { "functions", "v1", "capture", "openai", "groq", "constructor", "" }

Pathnames(n) ==
    UNION { { <<"">> \o s : s \in [1..k -> Segments] } : k \in 1..n }

ExamplePaths ==
    { <<"", "functions", "v1", "capture", "openai", "v1", "chat", "completions">>,
      <<"", "functions", "v1", "capture", "foo", "bar">> }

MainPaths ==
    ExamplePaths \cup
    { <<"", "functions", "v1", "capture", "constructor", "openai", "v1">>,
      <<"", "functions", "v1", "messages">>,
      <<"", "v1", "messages">> }

HeaderTargets ==
    { Undefined, Str(EmptyString), Str(<<"https:", "", "up.example", "api", "">>),
      Str(<<"localhost">>) }

QueryTargets == { Null, Str(EmptyString), Str(<<"https:", "", "alt.example">>) }

EnvSet ==
    [ SUPABASE_URL |-> Str(<<"https:", "", "proj.supabase.co">>),
      SUPABASE_ANON_KEY |-> Str(<<"anon-key">>),
      SUPABASE_SERVICE_ROLE_KEY |-> Str(<<"service-key">>) ]

EnvNoAnonKey == [ EnvSet EXCEPT !.SUPABASE_ANON_KEY = Undefined ]

EnvUnset ==
    [ SUPABASE_URL |-> Undefined, SUPABASE_ANON_KEY |-> Undefined,
      SUPABASE_SERVICE_ROLE_KEY |-> Undefined ]

Request(method, pathname, xProxyTarget, target, contentType, body) ==
    [ method |-> method, pathname |-> pathname, xProxyTarget |-> xProxyTarget,
      target |-> target, contentType |-> contentType,
      xForwardedFor |-> Hdr("203.0.113.7"), body |-> body ]

MainRequests ==
    { Request(m, p, h, q, c, IF m = "POST" THEN Str(<<"{}">>) ELSE Str(EmptyString)) :
        m \in { "OPTIONS", "GET", "POST" }, p \in MainPaths,
        h \in { Undefined, Str(<<"https:", "", "up.example", "api", "">>), Str(<<"localhost">>) },
        q \in { Null, Str(<<"https:", "", "alt.example">>) },
        c \in { Undefined, Hdr("application/json") } }

ResolveRequests ==
    { Request("GET", p, h, q, Undefined, Str(EmptyString)) :
        p \in Pathnames(MaxSegs) \cup ExamplePaths, h \in HeaderTargets, q \in QueryTargets }

\* what fetch() can settle to
FetchOutcomes ==
    { [ threw |-> TRUE, message |-> <<"connection refused">>, status |-> 0,
        contentType |-> Undefined, body |-> Undefined ] }
    \cup
    { [ threw |-> FALSE, message |-> EmptyString, status |-> st, contentType |-> ct,
        body |-> b ] :
        st \in { 200, 503 },
        ct \in { Undefined, Hdr("text/event-stream"), Hdr("text/plain"),
                 Hdr("application/json; charset=utf-8"), Hdr("application/octet-stream") },
        b \in { Str(<<"upstream body 1">>), Str(<<"upstream body 2">>) } }

Locals ==
    /\ pc = "start"
    /\ targetBase = Undefined
    /\ proxyPath = EmptyString
    /\ targetUrl = Undefined
    /\ requestBody = Null
    /\ upstream = [ threw |-> FALSE, message |-> EmptyString, status |-> 0,
                    contentType |-> Undefined, body |-> Undefined ]
    /\ response = NoResponse
    /\ responseStatus = 0
    /\ responseHeaders = Undefined
    /\ responseBody = Null
    /\ uncaught = Null
    /\ returned = NoResponse
    /\ trace = <<>>
    /\ writes = <<>>

Init ==
    /\ req \in MainRequests
    /\ env \in { EnvSet, EnvNoAnonKey, EnvUnset }
    /\ Locals

InitResolve ==
    /\ req \in ResolveRequests
    /\ env = EnvSet
    /\ Locals

----------------------------------------------------------------------------
(* The handler *)

\* return response (line 221), after the calls in tr
Return(tr) ==
    /\ returned' = response
    /\ pc' = "done"
    /\ trace' = Append(tr, Event("return", "response"))
    /\ UNCHANGED uncaught

\* OuterCatch answering with the response computed so far instead of the 500
OuterCatch_ReturnsResponse(message, tr) ==
    /\ uncaught' = Str(message)
    /\ returned' = response
    /\ pc' = "done"
    /\ trace' = Append(tr, Event("return", "error"))

\* the outer catch (lines 223-228), after the calls in tr
OuterCatch(message, tr) ==
    /\ uncaught' = Str(message)
    /\ returned' = ErrorResponse(message)
    /\ pc' = "done"
    /\ trace' = Append(tr, Event("return", "error"))

\* lines 12-14
Preflight ==
    /\ pc = "start"
    /\ req.method = "OPTIONS"
    /\ returned' = PreflightResponse
    /\ pc' = "done"
    /\ trace' = Append(trace, Event("return", "preflight"))
    /\ UNCHANGED << req, env, targetBase, proxyPath, targetUrl, requestBody, upstream,
                    response, responseStatus, responseHeaders, responseBody, uncaught,
                    writes >>

\* lines 16-98: resolution and URL construction, up to the first await
ResolveTarget ==
    /\ pc = "start"
    /\ req.method # "OPTIONS"
    /\ LET r == Resolve([ req EXCEPT !.xProxyTarget = HeadersGet(@) ])
           c == ConstructUrl(r.targetBase, r.proxyPath, Search(req))
       IN  /\ targetBase' = r.targetBase
           /\ proxyPath' = r.proxyPath
           /\ IF c.ok
              THEN /\ targetUrl' = Str(c.href)
                   /\ pc' = IF LogsRequestBody(req) THEN "readBody" ELSE "fetch"
                   /\ UNCHANGED << uncaught, returned, trace >>
              ELSE /\ UNCHANGED targetUrl
                   /\ OuterCatch(c.error, trace)
    /\ UNCHANGED << req, env, requestBody, upstream, response, responseStatus,
                    responseHeaders, responseBody, writes >>

\* lines 99-103: await reqClone.text()
ReadRequestBody ==
    /\ pc = "readBody"
    /\ \E outcome \in { "ok", "throw" } :
         /\ requestBody' = IF outcome = "ok" THEN req.body ELSE requestBody
         /\ trace' = Append(trace, Event("readRequestBody", outcome))
    /\ pc' = "fetch"
    /\ UNCHANGED << req, env, targetBase, proxyPath, targetUrl, upstream, response,
                    responseStatus, responseHeaders, responseBody, uncaught, returned,
                    writes >>

\* the Response fetch() resolved to
UpstreamResponse(o) ==
    [ status |-> o.status, body |-> o.body, headers |-> [ ContentType |-> o.contentType ] ]

\* lines 133-135: what the handler does with the upstream body
BodyCapture(contentTypeRes) ==
    IF Includes(contentTypeRes, "text/event-stream") THEN "sentinel"
    ELSE IF Includes(contentTypeRes, "application/json") \/ Includes(contentTypeRes, "text/")
         THEN "read"
         ELSE "none"

\* line 146
ConnectErrorBody(message) == Concat(<<"Error connecting to upstream: ">>, message)

\* lines 106-135 and 143-148: await fetch(), then the synchronous code that follows
Forward ==
    /\ pc = "fetch"
    /\ \E o \in FetchOutcomes :
         /\ upstream' = o
         /\ IF o.threw
            THEN /\ responseStatus' = 502
                 /\ responseBody' = Str(ConnectErrorBody(o.message))
                 /\ response' = BadGatewayResponse(ConnectErrorBody(o.message))
                 /\ UNCHANGED responseHeaders
                 /\ trace' = Append(trace, Event("fetch", "throw"))
                 /\ pc' = "log"
            ELSE LET capture == BodyCapture(Or(o.contentType, Str(EmptyString)))
                 IN  /\ response' = UpstreamResponse(o)
                     /\ responseStatus' = o.status
                     /\ responseHeaders' = o.contentType
                     /\ responseBody' = IF capture = "sentinel"
                                        THEN Str(<<"[STREAMING RESPONSE]">>)
                                        ELSE responseBody
                     /\ trace' = Append(trace, Event("fetch", "ok"))
                     /\ pc' = IF capture = "read" THEN "readResponse" ELSE "log"
    /\ UNCHANGED << req, env, targetBase, proxyPath, targetUrl, requestBody, uncaught,
                    returned, writes >>

\* lines 136-141: await resClone.text()
ReadResponseBody ==
    /\ pc = "readResponse"
    /\ \E outcome \in { "ok", "throw" } :
         /\ responseBody' = IF outcome = "ok" THEN upstream.body
                            ELSE Str(<<"[Error reading response body]">>)
         /\ trace' = Append(trace, Event("readResponseBody", outcome))
    /\ pc' = "log"
    /\ UNCHANGED << req, env, targetBase, proxyPath, targetUrl, requestBody, upstream,
                    response, responseStatus, responseHeaders, uncaught, returned, writes >>

\* createClient(supabaseUrl, supabaseKey) of supabase-js 2: the constructor
\* rejects an empty URL or key
CreateClient(supabaseUrl, supabaseKey) ==
    IF ~Truthy(supabaseUrl) THEN [ ok |-> FALSE, error |-> <<"supabaseUrl is required.">> ]
    ELSE IF ~Truthy(supabaseKey) THEN [ ok |-> FALSE, error |-> <<"supabaseKey is required.">> ]
    ELSE [ ok |-> TRUE, error |-> EmptyString ]

\* lines 150-159: the two clients are built
CreateClients ==
    /\ pc = "log"
    /\ LET supabaseUrl == Coalesce(env.SUPABASE_URL, Str(EmptyString))
           supabaseAnonKey == Coalesce(env.SUPABASE_ANON_KEY, Str(EmptyString))
           supabaseServiceKey == Coalesce(env.SUPABASE_SERVICE_ROLE_KEY, Str(EmptyString))
           supabaseAdmin == CreateClient(supabaseUrl, supabaseServiceKey)
           supabase == CreateClient(supabaseUrl, supabaseAnonKey)
       IN  IF ~supabaseAdmin.ok THEN OuterCatch(supabaseAdmin.error, trace)
           ELSE IF ~supabase.ok THEN OuterCatch(supabase.error, trace)
           ELSE /\ pc' = "insert"
                /\ UNCHANGED << uncaught, returned, trace >>
    /\ UNCHANGED << req, env, targetBase, proxyPath, targetUrl, requestBody, upstream,
                    response, responseStatus, responseHeaders, responseBody, writes >>

\* Object.fromEntries(req.headers.entries())
requestHeaders ==
    [ xProxyTarget |-> req.xProxyTarget, contentType |-> req.contentType,
      xForwardedFor |-> req.xForwardedFor ]

\* lines 163-173: the row handed to insert()
LogRecord ==
    [ method |-> req.method, url |-> targetUrl, request_headers |-> requestHeaders,
      request_body |-> requestBody, response_status |-> responseStatus,
      response_headers |-> responseHeaders, response_body |-> responseBody,
      client_ip |-> Or(requestHeaders.xForwardedFor, Null) ]

\* lines 190-206: the document handed to upload()
LogEntry ==
    [ metadata |-> [ method |-> req.method, url |-> targetUrl, status |-> responseStatus,
                     ip |-> requestHeaders.xForwardedFor ],
      request  |-> [ headers |-> requestHeaders, body |-> requestBody ],
      response |-> [ headers |-> responseHeaders, body |-> responseBody ] ]

Write(sink, payload, outcome) == [ sink |-> sink, payload |-> payload, outcome |-> outcome ]

\* Insert with the dbError test dropped: the storage fallback runs after every insert
Insert_FallbackAlways ==
    /\ pc = "insert"
    /\ \E outcome \in { "ok", "error", "throw" } :
         LET tr == Append(trace, Event("insert", outcome))
         IN  /\ writes' = Append(writes, Write("api_logs", LogRecord, outcome))
             /\ IF outcome = "throw"
                THEN OuterCatch(<<"insert rejected">>, tr)
                ELSE /\ pc' = "getBucket"
                     /\ trace' = tr
                     /\ UNCHANGED << uncaught, returned >>
    /\ UNCHANGED << req, env, targetBase, proxyPath, targetUrl, requestBody, upstream,
                    response, responseStatus, responseHeaders, responseBody >>

\* lines 163-176 and 221: await supabaseAdmin.from('api_logs').insert(...)
Insert ==
    /\ pc = "insert"
    /\ \E outcome \in { "ok", "error", "throw" } :
         LET tr == Append(trace, Event("insert", outcome))
         IN  /\ writes' = Append(writes, Write("api_logs", LogRecord, outcome))
             /\ CASE outcome = "ok" -> Return(tr)
                  [] outcome = "error" ->
                        /\ pc' = "getBucket"
                        /\ trace' = tr
                        /\ UNCHANGED << uncaught, returned >>
                  [] outcome = "throw" -> OuterCatch(<<"insert rejected">>, tr)
    /\ UNCHANGED << req, env, targetBase, proxyPath, targetUrl, requestBody, upstream,
                    response, responseStatus, responseHeaders, responseBody >>

\* GetBucket with its own try/catch: a rejected check no longer skips the upload
GetBucket_ThrowIgnored ==
    /\ pc = "getBucket"
    /\ \E outcome \in { "ok", "not found", "error", "throw" } :
         /\ pc' = IF outcome = "not found" THEN "createBucket" ELSE "upload"
         /\ trace' = Append(trace, Event("getBucket", outcome))
         /\ UNCHANGED << uncaught, returned >>
    /\ UNCHANGED << req, env, targetBase, proxyPath, targetUrl, requestBody, upstream,
                    response, responseStatus, responseHeaders, responseBody, writes >>

\* lines 183-185: await supabaseAdmin.storage.getBucket(bucketName)
GetBucket ==
    /\ pc = "getBucket"
    /\ \E outcome \in { "ok", "not found", "error", "throw" } :
         LET tr == Append(trace, Event("getBucket", outcome))
         IN  IF outcome = "throw"
             THEN Return(tr)
             ELSE /\ pc' = IF outcome = "not found" THEN "createBucket" ELSE "upload"
                  /\ trace' = tr
                  /\ UNCHANGED << uncaught, returned >>
    /\ UNCHANGED << req, env, targetBase, proxyPath, targetUrl, requestBody, upstream,
                    response, responseStatus, responseHeaders, responseBody, writes >>

\* line 186: await supabaseAdmin.storage.createBucket(bucketName, ...)
CreateBucket ==
    /\ pc = "createBucket"
    /\ \E outcome \in { "ok", "error", "throw" } :
         LET tr == Append(trace, Event("createBucket", outcome))
         IN  IF outcome = "throw"
             THEN Return(tr)
             ELSE /\ pc' = "upload"
                  /\ trace' = tr
                  /\ UNCHANGED << uncaught, returned >>
    /\ UNCHANGED << req, env, targetBase, proxyPath, targetUrl, requestBody, upstream,
                    response, responseStatus, responseHeaders, responseBody, writes >>

\* lines 189-221: await supabaseAdmin.storage.from(bucketName).upload(...)
Upload ==
    /\ pc = "upload"
    /\ \E outcome \in { "ok", "error", "throw" } :
         /\ writes' = Append(writes, Write("capture_logs", LogEntry, outcome))
         /\ Return(Append(trace, Event("upload", outcome)))
    /\ UNCHANGED << req, env, targetBase, proxyPath, targetUrl, requestBody, upstream,
                    response, responseStatus, responseHeaders, responseBody >>

Next ==
    \/ Preflight
    \/ ResolveTarget
    \/ ReadRequestBody
    \/ Forward
    \/ ReadResponseBody
    \/ CreateClients
    \/ Insert
    \/ GetBucket
    \/ CreateBucket
    \/ Upload

Spec == Init /\ [][Next]_vars

\* target resolution alone, over every inbound path of up to MaxSegs segments
NextResolve == ResolveTarget

SpecResolve == InitResolve /\ [][NextResolve]_vars

\* rows inserted into api_logs, objects created in capture_logs
rows == Len(SelectSeq(writes, LAMBDA w : w.sink = "api_logs" /\ w.outcome = "ok"))
blobs == Len(SelectSeq(writes, LAMBDA w : w.sink = "capture_logs" /\ w.outcome = "ok"))

----------------------------------------------------------------------------
(* The vocabulary of the properties *)

AliasKeys == { "anthropic", "openai", "deepseek", "gemini", "groq", "xrapi", "echo" }

Did(op) == \E i \in 1..Len(trace) : trace[i].op = op
DidWith(op, outcome) == \E i \in 1..Len(trace) : trace[i] = Event(op, outcome)
Count(op) == Len(SelectSeq(trace, LAMBDA e : e.op = op))

Handled == pc = "done" /\ req.method # "OPTIONS"
Resolved == pc # "start" /\ req.method # "OPTIONS"

\* the request carries neither the header nor the query parameter
NoOverride == req.xProxyTarget = Undefined /\ req.target = Null

\* the override the request carries: the header's value, else the parameter's
NonEmpty(v) == v.t = "string" /\ v.parts # EmptyString
CarriedOverride ==
    IF NonEmpty(req.xProxyTarget) THEN req.xProxyTarget
    ELSE IF NonEmpty(req.target) THEN req.target
    ELSE Null

HasAliasSegment == \E i \in 1..Len(pathSegments(req)) : pathSegments(req)[i] \in AliasKeys

FirstAliasSegment ==
    CHOOSE i \in 1..Len(pathSegments(req)) :
        /\ pathSegments(req)[i] \in AliasKeys
        /\ \A j \in 1..(i - 1) : pathSegments(req)[j] \notin AliasKeys

\* "/" followed by the segments after the i-th, joined by "/"
SegmentsAfter(i) ==
    IF i >= Len(pathSegments(req)) THEN <<"", "">>
    ELSE <<"">> \o SubSeq(pathSegments(req), i + 1, Len(pathSegments(req)))

HasCapture == \E i \in 1..Len(pathSegments(req)) : pathSegments(req)[i] = "capture"

FirstCapture ==
    CHOOSE i \in 1..Len(pathSegments(req)) :
        /\ pathSegments(req)[i] = "capture"
        /\ \A j \in 1..(i - 1) : pathSegments(req)[j] # "capture"

TargetUrlIs(text) == targetUrl.t = "string" /\ Text(targetUrl.parts) = text

\* the response of the upstream, or the one synthesized for a connection error
ForwardedResponse ==
    IF upstream.threw
    THEN [ status |-> 502,
           body |-> Str(<<"Error connecting to upstream: " \o upstream.message[1]>>),
           headers |-> [ ContentType |-> "text/plain;charset=UTF-8" ] ]
    ELSE [ status |-> upstream.status, body |-> upstream.body,
           headers |-> [ ContentType |-> upstream.contentType ] ]

\* the response status and body a write to a sink carries
LoggedStatus(w) ==
    IF w.sink = "api_logs" THEN w.payload.response_status ELSE w.payload.metadata.status
LoggedBody(w) ==
    IF w.sink = "api_logs" THEN w.payload.response_body ELSE w.payload.response.body

----------------------------------------------------------------------------
(* C1 *)

\* C1: once the upstream fetch has completed, the response the caller gets is
\* the upstream's response or the synthesized 502 response, whatever the
\* logging steps do (clients built from empty settings, insert succeeding,
\* failing or throwing, bucket check, bucket creation or upload failing).
C1_ResponseIndependentOfLogging ==
    (Handled /\ Did("fetch")) => returned = ForwardedResponse

----------------------------------------------------------------------------
(* C2 *)

\* C2: with no override, the first path segment that is a key of the alias
\* table selects the base, the forwarded path is what follows that segment, a
\* segment that is no key never selects a base, and
\* /functions/v1/capture/openai/v1/chat/completions resolves to
\* https://api.openai.com/v1/chat/completions.
C2_FirstAliasSelectsBase ==
    (Resolved /\ NoOverride) =>
        /\ HasAliasSegment =>
             /\ targetBase = Str(ENDPOINT_MAP[pathSegments(req)[FirstAliasSegment]])
             /\ proxyPath = SegmentsAfter(FirstAliasSegment)
        /\ ~HasAliasSegment => targetBase = Str(<<"https:", "", "api.anthropic.com">>)
        /\ req.pathname = <<"", "functions", "v1", "capture", "openai", "v1", "chat", "completions">>
             => TargetUrlIs("https://api.openai.com/v1/chat/completions")

----------------------------------------------------------------------------
(* C3 *)

\* C3: a request that carries an override target (the x-proxy-target header,
\* else the _target parameter) resolves to that override whatever its path
\* holds, alias segments included; the forwarded path is what follows the
\* first 'capture' segment, or the whole inbound path when there is none.
C3_OverrideWins ==
    (Resolved /\ CarriedOverride # Null) =>
        /\ targetBase = CarriedOverride
        /\ proxyPath = IF HasCapture THEN SegmentsAfter(FirstCapture) ELSE req.pathname

\* an override was honoured on a path that holds an alias after 'capture'
C3_Witness ==
    /\ Resolved
    /\ NonEmpty(req.xProxyTarget)
    /\ HasAliasSegment
    /\ HasCapture
    /\ targetBase = req.xProxyTarget
    /\ proxyPath # req.pathname

----------------------------------------------------------------------------
(* C4 *)

\* C4: with no override and no alias segment the base is the default upstream
\* https://api.anthropic.com; the forwarded path is what follows 'capture' when
\* it is present, else the path without its first three segments when it
\* begins with functions/v1 and has them, else the inbound path; and
\* /functions/v1/capture/foo/bar resolves to https://api.anthropic.com/foo/bar.
C4_DefaultUpstream ==
    (Resolved /\ NoOverride /\ ~HasAliasSegment) =>
        /\ targetBase = Str(<<"https:", "", "api.anthropic.com">>)
        /\ HasCapture => proxyPath = SegmentsAfter(FirstCapture)
        /\ ( /\ ~HasCapture
             /\ Len(pathSegments(req)) >= 3
             /\ pathSegments(req)[1] = "functions"
             /\ pathSegments(req)[2] = "v1" ) => proxyPath = SegmentsAfter(3)
        /\ ( /\ ~HasCapture
             /\ ~( /\ Len(pathSegments(req)) >= 2
                   /\ pathSegments(req)[1] = "functions"
                   /\ pathSegments(req)[2] = "v1" ) ) => proxyPath = req.pathname
        /\ req.pathname = <<"", "functions", "v1", "capture", "foo", "bar">>
             => TargetUrlIs("https://api.anthropic.com/foo/bar")

----------------------------------------------------------------------------
(* C5 *)

InsertFailed == DidWith("insert", "error") \/ DidWith("insert", "throw")

\* C5 as stated: if the insert into api_logs fails, exactly one object is
\* created in capture_logs and no row is inserted, whatever the bucket check,
\* the bucket creation and the upload do.
C5_ExactlyOneBlob ==
    (Handled /\ InsertFailed) => (blobs = 1 /\ rows = 0)

\* C5 amended: if the insert fails, no row is inserted and at most one object
\* is created; exactly one when the insert returned an error, neither
\* getBucket nor createBucket threw and the upload succeeded, none otherwise.
C5_AtMostOneBlob ==
    (Handled /\ InsertFailed) =>
        /\ rows = 0
        /\ blobs <= 1
        /\ blobs = 1 <=>
             /\ DidWith("insert", "error")
             /\ ~DidWith("getBucket", "throw")
             /\ ~DidWith("createBucket", "throw")
             /\ DidWith("upload", "ok")
        /\ DidWith("insert", "throw") => ~Did("getBucket") /\ ~Did("upload")
        /\ (DidWith("getBucket", "throw") \/ DidWith("createBucket", "throw"))
             => ~Did("upload")

\* the record went to the fallback container after a failed insert and a
\* bucket that had to be created
C5_Witness ==
    /\ Handled
    /\ DidWith("insert", "error")
    /\ DidWith("getBucket", "not found")
    /\ Did("createBucket")
    /\ blobs = 1
    /\ rows = 0

----------------------------------------------------------------------------
(* C6 *)

NothingElseRan ==
    /\ trace = << Event("return", "preflight") >>
    /\ targetBase = Undefined
    /\ targetUrl = Undefined
    /\ upstream.status = 0 /\ ~upstream.threw
    /\ writes = <<>>
    /\ uncaught = Null

\* C6 as stated: an OPTIONS request yields status 200, an empty body and the
\* cross-origin headers, whatever its path and headers, and nothing else runs.
C6_PreflightEmptyBody ==
    (pc = "done" /\ req.method = "OPTIONS") =>
        /\ returned.status = 200
        /\ returned.body = Str(EmptyString)
        /\ returned.headers = corsHeaders
        /\ NothingElseRan

\* C6 amended: an OPTIONS request yields status 200, the body 'ok' and the
\* cross-origin headers, whatever its path and headers, and nothing else runs:
\* no target resolution, no upstream fetch, no insert and no upload.
C6_PreflightOk ==
    (pc = "done" /\ req.method = "OPTIONS") =>
        /\ returned.status = 200
        /\ returned.body = Str(<<"ok">>)
        /\ returned.headers =
             [ AccessControlAllowOrigin |-> "*",
               AccessControlAllowHeaders |->
                 "authorization, x-client-info, apikey, content-type, x-proxy-target, x-anthropic-version, anthropic-version",
               AccessControlAllowMethods |-> "POST, GET, OPTIONS, PUT, DELETE, PATCH" ]
        /\ NothingElseRan

\* a preflight was answered for a request with an override header and an alias path
C6_Witness ==
    /\ pc = "done"
    /\ req.method = "OPTIONS"
    /\ NonEmpty(req.xProxyTarget)
    /\ HasAliasSegment
    /\ returned.status = 200

----------------------------------------------------------------------------
(* C7 *)

\* C7: when the fetch itself fails, the response is synthesized with status
\* 502 and a body describing the error; it is what the caller receives and what
\* is logged; and no other error changes the status the caller sees.
C7_ConnectFailure ==
    Handled =>
        /\ upstream.threw =>
             /\ returned.status = 502
             /\ returned.body = Str(<<"Error connecting to upstream: " \o upstream.message[1]>>)
             /\ \A i \in 1..Len(writes) :
                  /\ LoggedStatus(writes[i]) = 502
                  /\ LoggedBody(writes[i]) = returned.body
        /\ DidWith("fetch", "ok") => returned.status = upstream.status

----------------------------------------------------------------------------
(* C8 *)

IsEventStream == upstream.contentType = Str(<<"text/event-stream">>)
IsJsonOrText ==
    upstream.contentType \in { Str(<<"text/plain">>), Str(<<"application/json">>),
                               Str(<<"application/json; charset=utf-8">>) }

\* C8: the logged response body follows the upstream content type: for an
\* event stream the body is never read and the sentinel is logged; otherwise
\* for JSON or text the logged body is the body returned to the caller; for any
\* other type null is logged. The body returned is the upstream body unmodified.
C8_LoggedBody ==
    (Handled /\ DidWith("fetch", "ok")) =>
        /\ IsEventStream =>
             /\ ~Did("readResponseBody")
             /\ \A i \in 1..Len(writes) :
                  LoggedBody(writes[i]) = Str(<<"[STREAMING RESPONSE]">>)
        /\ (~IsEventStream /\ IsJsonOrText) =>
             \A i \in 1..Len(writes) : LoggedBody(writes[i]) = returned.body
        /\ (~IsEventStream /\ ~IsJsonOrText) =>
             \A i \in 1..Len(writes) : LoggedBody(writes[i]) = Null
        /\ returned.body = upstream.body

----------------------------------------------------------------------------
(* C9 *)

\* the places an error can be raised outside the two inner try blocks
ErrorRaised ==
    \/ targetBase.t = "function"
    \/ targetUrl = Undefined
    \/ (Did("fetch") /\ (env.SUPABASE_URL = Undefined
                           \/ env.SUPABASE_SERVICE_ROLE_KEY = Undefined
                           \/ env.SUPABASE_ANON_KEY = Undefined))
    \/ DidWith("insert", "throw")

\* C9: an error raised in the handling of a non-preflight request and caught
\* nowhere else yields status 500, the body {"error": <message>} and the
\* cross-origin headers; the handler returns exactly one response.
C9_UncaughtIs500 ==
    Handled =>
        /\ Count("return") = 1
        /\ trace[Len(trace)].op = "return"
        /\ returned # NoResponse
        /\ ErrorRaised <=> uncaught # Null
        /\ uncaught # Null =>
             /\ returned.status = 500
             /\ returned.body = Str(<<"{\"error\":\"" \o uncaught.parts[1] \o "\"}">>)
             /\ returned.headers.ContentType = "application/json"
             /\ \A h \in DOMAIN corsHeaders : returned.headers[h] = corsHeaders[h]
        /\ uncaught = Null => returned = ForwardedResponse

\* an error raised after the upstream had answered was turned into a 500
C9_Witness ==
    /\ Handled
    /\ DidWith("fetch", "ok")
    /\ DidWith("insert", "throw")
    /\ uncaught # Null
    /\ returned.status = 500

----------------------------------------------------------------------------
(* C10 *)

SideEffects == << "fetch", "insert", "getBucket", "createBucket", "upload", "return" >>
Rank(op) == CHOOSE k \in 1..Len(SideEffects) : SideEffects[k] = op
Effects == SelectSeq(trace, LAMBDA e : \E k \in 1..Len(SideEffects) : SideEffects[k] = e.op)

\* C10: the side effects of a request happen in the order fetch, insert,
\* bucket check, bucket creation, upload, return, each at most once; the
\* storage calls only after the insert reported an error, the creation only
\* after a 'not found' check; the record reaches at most one sink.
C10_FixedOrder ==
    /\ \A i, j \in 1..Len(Effects) :
         i < j => Rank(Effects[i].op) < Rank(Effects[j].op)
    /\ Did("insert") => Did("fetch")
    /\ Did("getBucket") => DidWith("insert", "error")
    /\ Did("createBucket") => DidWith("getBucket", "not found")
    /\ Did("upload") => (DidWith("insert", "error") /\ Did("getBucket"))
    /\ DidWith("insert", "ok") => ~Did("upload")
    /\ Len(writes) = Count("insert") + Count("upload")
    /\ rows + blobs <= 1
    /\ Did("return") <=> pc = "done"
    /\ ( /\ Handled
         /\ DidWith("insert", "error")
         /\ ~DidWith("getBucket", "throw")
         /\ ~DidWith("createBucket", "throw") ) => Count("upload") = 1

\* a request went through every side effect: fetch, failed insert, bucket
\* check, bucket creation, upload, return
C10_Witness ==
    /\ Handled
    /\ Len(Effects) = Len(SideEffects)
    /\ blobs = 1

====
